---- MODULE Spec2Model ----
(***************************************************************************)
(* SprintSync front end (src/src/App.js): the state of the App component,  *)
(* the browser's localStorage, and the asynchronous handlers suspended at  *)
(* their awaits, as one state machine.  A user event runs the handler of   *)
(* the latest render up to its first await; the settling of a request runs *)
(* the rest of the handler up to its next await or its end.                *)
(***************************************************************************)
EXTENDS Bags, FiniteSets, Integers, Sequences, TLC

VARIABLES
    clicks,         \* user events so far
    tasks,          \* useState([])    App.js:17
    showModal,      \* useState(false) App.js:18
    editingTask,    \* useState(null)  App.js:19
    aiSuggestion,   \* useState(null)  App.js:20
    loading,        \* useState(false) App.js:21
    user,           \* useState(null)  App.js:22
    accessToken,    \* localStorage 'accessToken'
    refreshToken,   \* localStorage 'refreshToken'
    mounted,        \* the mount effect (App.js:25-32) has run
    inflight,       \* bag of handler invocations suspended at an await
    ev              \* the handler step that produced this state

vars == <<clicks, tasks, showModal, editingTask, aiSuggestion, loading, user,
          accessToken, refreshToken, mounted, inflight, ev>>

(* ------------------------------ bounds -------------------------------- *)

\* a user event issues a request only while fewer than this many requests
\* are in flight
MaxInFlight == 2
\* user events (clicks, submits, selections) in one run
MaxUserEvents == 3

(* ------------------------------ values -------------------------------- *)

\* JavaScript's null/undefined, a value equal to no object
null == [isNull |-> TRUE]
\* what localStorage.getItem gives for a key that is not stored
NoItem == "(none)"
\* ids the backend assigns (the ids of the spec's changeStatus scenario)
TaskIds == {5, 7}
\* statusOptions, App.js:215-219
Statuses == {"TO_DO", "IN_PROGRESS", "DONE"}
\* task.title, a field no handler changes
Titles == {"t"}
Task == [id : TaskIds, title : Titles, status : Statuses]
\* the statuses of the tasks the backend lists; no handler reads a status
ListedStatuses == {"TO_DO", "DONE"}
ListedTask == {t \in Task : t.status \in ListedStatuses}

\* the sequences of at most n listed tasks
RECURSIVE TaskSeqs(_)
TaskSeqs(n) ==
    IF n = 0 THEN {<<>>}
    ELSE LET shorter == TaskSeqs(n - 1)
         IN  shorter \cup
             {Append(s, t) : s \in {x \in shorter : Len(x) = n - 1},
                             t \in ListedTask}
\* the backend lists tasks by ascending id, each id once
TaskLists ==
    {s \in TaskSeqs(Cardinality(TaskIds)) :
        \A i, j \in 1..Len(s) : i < j => s[i].id < s[j].id}

\* bodies of GET /tasks/tasks/: a bare array or a paginated wrapper
ListBodies ==
    {[shape |-> "array", items |-> s] : s \in TaskLists} \cup
    {[shape |-> "paginated", results |-> s] : s \in TaskLists}
\* body of GET /users/users/1/
Profiles == {[username |-> "u1"]}
\* bodies of POST /tasks/ai/daily_plan/
Plans == {[plan |-> "p1", estimated_hours |-> 3]}
\* the fallback of App.js:118-121
FallbackSuggestion ==
    [plan |-> "Could not generate plan. Please try again later.",
     estimated_hours |-> 0]
\* bodies of POST users/auth/token/
Tokens == {[access |-> "a1", refresh |-> "r1"]}

(* ----------------------- suspended invocations ------------------------ *)

\* fn: the handler; at: the request it awaits; id, status: the handler's
\* arguments; snap: the tasks of its closure
Op(fn, at, id, status, snap) ==
    [fn |-> fn, at |-> at, id |-> id, status |-> status, snap |-> snap]

Issue(bag, op) == bag (+) SetToBag({op})
Settle(bag, op) == bag (-) SetToBag({op})
Pending == BagToSet(inflight)
PendingAt(fn, at) == {op \in Pending : op.fn = fn /\ op.at = at}
NInFlight == BagCardinality(inflight)
Event(name, ok, data) == [op |-> name, ok |-> ok, data |-> data]

(* --------------------------- pure functions --------------------------- *)

\* response.data.results, as <<value>>, or <<>> for the undefined an array
\* gives                                                        App.js:37
Results(data) ==
    IF data.shape = "paginated" THEN <<data.results>> ELSE <<>>
\* truthiness of an array or undefined: every array, the empty one
\* included, is truthy; undefined is not
Truthy(v) == v # <<>>
\* response.data.results || response.data                       App.js:37
TasksFrom(data) ==
    IF Truthy(Results(data)) THEN Results(data)[1] ELSE data.items

\* MapStatus without the test on the id: every record gets the status
MapStatusEvery(ts, taskId, newStatus) ==
    [i \in 1..Len(ts) |-> [ts[i] EXCEPT !.status = newStatus]]

\* tasks.map(task => task.id === taskId ? {...task, status} : task)
\*                                                            App.js:77-79
MapStatus(ts, taskId, newStatus) ==
    [i \in 1..Len(ts) |->
        IF ts[i].id = taskId THEN [ts[i] EXCEPT !.status = newStatus]
        ELSE ts[i]]

\* if (!user) return <LoginForm/>; otherwise the main view   App.js:127-131
View == IF user = null THEN "login" ELSE "main"
\* disabled={loading} on the daily-plan button                  App.js:152
PlanButtonDisabled == loading

(* ------------------------------- Init --------------------------------- *)

\* App's initial state; localStorage holds the tokens of an earlier
\* session or none
Init ==
    /\ clicks = 0
    /\ tasks = <<>>
    /\ showModal = FALSE
    /\ editingTask = null
    /\ aiSuggestion = null
    /\ loading = FALSE
    /\ user = null
    /\ \E t \in Tokens \cup {[access |-> NoItem, refresh |-> NoItem]} :
          accessToken = t.access /\ refreshToken = t.refresh
    /\ mounted = FALSE
    /\ inflight = EmptyBag
    /\ ev = Event("init", TRUE, null)

NoArg(fn, at) == Op(fn, at, 0, "", <<>>)
\* fetchTasks() called without await by the mount effect, handleSaveTask
\* or handleDeleteTask                                 App.js:26, 94, 104
ListOp == NoArg("fetchTasks", "GET tasks")

\* events reach the handlers once the component is mounted
Running == mounted
\* a user event on the rendered view
UserEvent(view) ==
    /\ Running
    /\ View = view
    /\ clicks < MaxUserEvents
    /\ clicks' = clicks + 1
\* a user event that issues a request
Requesting == NInFlight < MaxInFlight

(* --------------------------- mount effect ----------------------------- *)

\* useEffect(() => { fetchTasks(); if (token) fetchUserProfile(); }, [])
Mount ==
    /\ ~mounted
    /\ mounted' = TRUE
    /\ inflight' =
          IF accessToken # NoItem
          THEN Issue(Issue(inflight, ListOp),
                     NoArg("fetchUserProfile", "GET profile"))
          ELSE Issue(inflight, ListOp)
    /\ ev' = Event("mount", TRUE, null)
    /\ UNCHANGED <<clicks, tasks, showModal, editingTask, aiSuggestion,
                   loading, user, accessToken, refreshToken>>

(* ----------------------------- fetchTasks ----------------------------- *)

\* fetchTasksOk that keeps the collection when the response's sequence is
\* empty, as if an empty array were falsy
fetchTasksOkKeepOnEmpty(op, data) ==
    /\ op \in Pending
    /\ op.at = "GET tasks"
    /\ data \in ListBodies
    /\ tasks' = IF TasksFrom(data) = <<>> THEN tasks ELSE TasksFrom(data)
    /\ inflight' = Settle(inflight, op)
    /\ ev' = Event(IF op.fn = "handleLogin" THEN "handleLoginTasks"
                   ELSE "fetchTasks", TRUE, data)
    /\ UNCHANGED <<clicks, showModal, editingTask, aiSuggestion, loading,
                   user, accessToken, refreshToken, mounted>>

\* setTasks(response.data.results || response.data); a handleLogin that
\* awaits fetchTasks ends with it                            App.js:36-37
fetchTasksOk(op, data) ==
    /\ op \in Pending
    /\ op.at = "GET tasks"
    /\ data \in ListBodies
    /\ tasks' = TasksFrom(data)
    /\ inflight' = Settle(inflight, op)
    /\ ev' = Event(IF op.fn = "handleLogin" THEN "handleLoginTasks"
                   ELSE "fetchTasks", TRUE, data)
    /\ UNCHANGED <<clicks, showModal, editingTask, aiSuggestion, loading,
                   user, accessToken, refreshToken, mounted>>

\* fetchTasksFail whose catch empties the collection
fetchTasksFailClear(op) ==
    /\ op \in Pending
    /\ op.at = "GET tasks"
    /\ tasks' = <<>>
    /\ inflight' = Settle(inflight, op)
    /\ ev' = Event(IF op.fn = "handleLogin" THEN "handleLoginTasks"
                   ELSE "fetchTasks", FALSE, null)
    /\ UNCHANGED <<clicks, showModal, editingTask, aiSuggestion, loading,
                   user, accessToken, refreshToken, mounted>>

\* the catch of fetchTasks only logs                         App.js:38-40
fetchTasksFail(op) ==
    /\ op \in Pending
    /\ op.at = "GET tasks"
    /\ inflight' = Settle(inflight, op)
    /\ ev' = Event(IF op.fn = "handleLogin" THEN "handleLoginTasks"
                   ELSE "fetchTasks", FALSE, null)
    /\ UNCHANGED <<clicks, tasks, showModal, editingTask, aiSuggestion,
                   loading, user, accessToken, refreshToken, mounted>>

(* -------------------------- fetchUserProfile -------------------------- *)

\* after fetchUserProfile a handleLogin awaiting it goes on to fetchTasks
AfterProfile(op) ==
    IF op.fn = "handleLogin"
    THEN Issue(Settle(inflight, op), NoArg("handleLogin", "GET tasks"))
    ELSE Settle(inflight, op)

fetchUserProfileOk(op, data) ==
    /\ op \in Pending
    /\ op.at = "GET profile"
    /\ data \in Profiles
    /\ user' = data
    /\ inflight' = AfterProfile(op)
    /\ ev' = Event(IF op.fn = "handleLogin" THEN "handleLoginProfile"
                   ELSE "fetchUserProfile", TRUE, null)
    /\ UNCHANGED <<clicks, tasks, showModal, editingTask, aiSuggestion,
                   loading, accessToken, refreshToken, mounted>>

fetchUserProfileFail(op) ==
    /\ op \in Pending
    /\ op.at = "GET profile"
    /\ inflight' = AfterProfile(op)
    /\ ev' = Event(IF op.fn = "handleLogin" THEN "handleLoginProfile"
                   ELSE "fetchUserProfile", FALSE, null)
    /\ UNCHANGED <<clicks, tasks, showModal, editingTask, aiSuggestion,
                   loading, user, accessToken, refreshToken, mounted>>

(* ---------------------------- handleLogin ----------------------------- *)

\* LoginForm's submit: onLogin({username, password})     App.js:356-359
handleLogin ==
    /\ UserEvent("login")
    /\ Requesting
    /\ inflight' = Issue(inflight, NoArg("handleLogin", "POST token"))
    /\ ev' = Event("handleLogin", TRUE, null)
    /\ UNCHANGED <<tasks, showModal, editingTask, aiSuggestion, loading,
                   user, accessToken, refreshToken, mounted>>

\* handleLoginTokenOk that sets the user as soon as the tokens arrive
handleLoginTokenOkSetsUser(op, data) ==
    /\ op \in PendingAt("handleLogin", "POST token")
    /\ data \in Tokens
    /\ accessToken' = data.access
    /\ refreshToken' = data.refresh
    /\ user' = CHOOSE p \in Profiles : TRUE
    /\ inflight' = Issue(Settle(inflight, op),
                         NoArg("handleLogin", "GET profile"))
    /\ ev' = Event("handleLoginToken", TRUE, null)
    /\ UNCHANGED <<clicks, tasks, showModal, editingTask, aiSuggestion,
                   loading, mounted>>

\* the credential exchange succeeded                       App.js:56-58
handleLoginTokenOk(op, data) ==
    /\ op \in PendingAt("handleLogin", "POST token")
    /\ data \in Tokens
    /\ accessToken' = data.access
    /\ refreshToken' = data.refresh
    /\ inflight' = Issue(Settle(inflight, op),
                         NoArg("handleLogin", "GET profile"))
    /\ ev' = Event("handleLoginToken", TRUE, null)
    /\ UNCHANGED <<clicks, tasks, showModal, editingTask, aiSuggestion,
                   loading, user, mounted>>

\* handleLoginTokenFail whose catch only logs
handleLoginTokenFailSilent(op) ==
    /\ op \in PendingAt("handleLogin", "POST token")
    /\ inflight' = Settle(inflight, op)
    /\ ev' = Event("handleLoginToken", FALSE, null)
    /\ UNCHANGED <<clicks, tasks, showModal, editingTask, aiSuggestion,
                   loading, user, accessToken, refreshToken, mounted>>

\* the credential exchange failed: the alert is shown, and handleLogin
\* ends when the user has closed it; no other handler runs while
\* window.alert is on screen                               App.js:60-63
handleLoginTokenFail(op) ==
    /\ op \in PendingAt("handleLogin", "POST token")
    /\ inflight' = Settle(inflight, op)
    /\ ev' = Event("handleLoginToken", FALSE,
                   [alert |-> "Login failed. Please check your credentials."])
    /\ UNCHANGED <<clicks, tasks, showModal, editingTask, aiSuggestion,
                   loading, user, accessToken, refreshToken, mounted>>

(* ---------------------------- handleLogout ---------------------------- *)

\* handleLogout that also resets the loading flag
handleLogoutResetLoading ==
    /\ UserEvent("main")
    /\ accessToken' = NoItem
    /\ refreshToken' = NoItem
    /\ user' = null
    /\ tasks' = <<>>
    /\ loading' = FALSE
    /\ ev' = Event("handleLogout", TRUE, null)
    /\ UNCHANGED <<showModal, editingTask, aiSuggestion, mounted, inflight>>

\* handleLogout without setTasks([])
handleLogoutKeepTasks ==
    /\ UserEvent("main")
    /\ accessToken' = NoItem
    /\ refreshToken' = NoItem
    /\ user' = null
    /\ ev' = Event("handleLogout", TRUE, null)
    /\ UNCHANGED <<tasks, showModal, editingTask, aiSuggestion, loading,
                   mounted, inflight>>

handleLogout ==
    /\ UserEvent("main")
    /\ accessToken' = NoItem
    /\ refreshToken' = NoItem
    /\ user' = null
    /\ tasks' = <<>>
    /\ ev' = Event("handleLogout", TRUE, null)
    /\ UNCHANGED <<showModal, editingTask, aiSuggestion, loading, mounted,
                   inflight>>

(* ------------------------- handleStatusChange ------------------------- *)

\* the status select of the i-th TaskItem changes to newStatus
\*                                                          App.js:244-247
handleStatusChange(i, newStatus) ==
    /\ UserEvent("main")
    /\ Requesting
    /\ i \in 1..Len(tasks)
    /\ newStatus \in Statuses \ {tasks[i].status}
    /\ inflight' = Issue(inflight,
          Op("handleStatusChange", "PATCH status", tasks[i].id, newStatus, tasks))
    /\ ev' = Event("handleStatusChange", TRUE, null)
    /\ UNCHANGED <<tasks, showModal, editingTask, aiSuggestion, loading,
                   user, accessToken, refreshToken, mounted>>

\* the PATCH succeeded: setTasks(tasks.map(...)) over the tasks of the
\* closure the handler was called in                         App.js:77-79
handleStatusChangeOk(op) ==
    /\ op \in PendingAt("handleStatusChange", "PATCH status")
    /\ tasks' = MapStatus(op.snap, op.id, op.status)
    /\ inflight' = Settle(inflight, op)
    /\ ev' = Event("handleStatusChangeDone", TRUE, op)
    /\ UNCHANGED <<clicks, showModal, editingTask, aiSuggestion, loading,
                   user, accessToken, refreshToken, mounted>>

handleStatusChangeFail(op) ==
    /\ op \in PendingAt("handleStatusChange", "PATCH status")
    /\ inflight' = Settle(inflight, op)
    /\ ev' = Event("handleStatusChangeDone", FALSE, null)
    /\ UNCHANGED <<clicks, tasks, showModal, editingTask, aiSuggestion,
                   loading, user, accessToken, refreshToken, mounted>>

(* ------------------------------ the modal ----------------------------- *)

\* onClick={() => setShowModal(true)}                           App.js:144
NewTask ==
    /\ UserEvent("main")
    /\ showModal' = TRUE
    /\ ev' = Event("newTask", TRUE, null)
    /\ UNCHANGED <<tasks, editingTask, aiSuggestion, loading, user,
                   accessToken, refreshToken, mounted, inflight>>

\* onEdit of the i-th TaskItem                              App.js:187-190
EditTask(i) ==
    /\ UserEvent("main")
    /\ i \in 1..Len(tasks)
    /\ editingTask' = tasks[i]
    /\ showModal' = TRUE
    /\ ev' = Event("editTask", TRUE, null)
    /\ UNCHANGED <<tasks, aiSuggestion, loading, user, accessToken,
                   refreshToken, mounted, inflight>>

\* onClose: Cancel, or a click on the overlay               App.js:202-205
CloseModal ==
    /\ UserEvent("main")
    /\ showModal
    /\ showModal' = FALSE
    /\ editingTask' = null
    /\ ev' = Event("closeModal", TRUE, null)
    /\ UNCHANGED <<tasks, aiSuggestion, loading, user, accessToken,
                   refreshToken, mounted, inflight>>

(* --------------------------- handleSaveTask --------------------------- *)

\* TaskModal's submit: a PUT when editingTask is set, a POST otherwise
\*                                              App.js:277-285, 85-91
handleSaveTask ==
    /\ UserEvent("main")
    /\ Requesting
    /\ showModal
    /\ inflight' = Issue(inflight,
          IF editingTask # null
          THEN Op("handleSaveTask", "PUT task", editingTask.id, "", <<>>)
          ELSE NoArg("handleSaveTask", "POST task"))
    /\ ev' = Event("handleSaveTask", TRUE, null)
    /\ UNCHANGED <<tasks, showModal, editingTask, aiSuggestion, loading,
                   user, accessToken, refreshToken, mounted>>

\* handleSaveTaskOk without setEditingTask(null)
handleSaveTaskOkKeepEditing(op) ==
    /\ op \in Pending
    /\ op.fn = "handleSaveTask"
    /\ showModal' = FALSE
    /\ inflight' = Issue(Settle(inflight, op), ListOp)
    /\ ev' = Event("handleSaveTaskDone", TRUE, null)
    /\ UNCHANGED <<clicks, tasks, editingTask, aiSuggestion, loading, user,
                   accessToken, refreshToken, mounted>>

\* the PUT or POST succeeded                                 App.js:92-94
handleSaveTaskOk(op) ==
    /\ op \in Pending
    /\ op.fn = "handleSaveTask"
    /\ showModal' = FALSE
    /\ editingTask' = null
    /\ inflight' = Issue(Settle(inflight, op), ListOp)
    /\ ev' = Event("handleSaveTaskDone", TRUE, null)
    /\ UNCHANGED <<clicks, tasks, aiSuggestion, loading, user, accessToken,
                   refreshToken, mounted>>

handleSaveTaskFail(op) ==
    /\ op \in Pending
    /\ op.fn = "handleSaveTask"
    /\ inflight' = Settle(inflight, op)
    /\ ev' = Event("handleSaveTaskDone", FALSE, null)
    /\ UNCHANGED <<clicks, tasks, showModal, editingTask, aiSuggestion,
                   loading, user, accessToken, refreshToken, mounted>>

(* -------------------------- handleDeleteTask -------------------------- *)

\* handleDeleteTask without the window.confirm test
handleDeleteTaskNoConfirm(i, confirmed) ==
    /\ UserEvent("main")
    /\ i \in 1..Len(tasks)
    /\ confirmed \in BOOLEAN
    /\ Requesting
    /\ inflight' = Issue(inflight,
          Op("handleDeleteTask", "DELETE task", tasks[i].id, "", <<>>))
    /\ ev' = Event("handleDeleteTask", confirmed, null)
    /\ UNCHANGED <<tasks, showModal, editingTask, aiSuggestion, loading,
                   user, accessToken, refreshToken, mounted>>

\* onDelete of the i-th TaskItem; confirmed is window.confirm's answer
\*                                                   App.js:191, 100-103
handleDeleteTask(i, confirmed) ==
    /\ UserEvent("main")
    /\ i \in 1..Len(tasks)
    /\ confirmed \in BOOLEAN
    /\ confirmed => Requesting
    /\ inflight' =
          IF confirmed
          THEN Issue(inflight,
                  Op("handleDeleteTask", "DELETE task", tasks[i].id, "", <<>>))
          ELSE inflight
    /\ ev' = Event("handleDeleteTask", confirmed, null)
    /\ UNCHANGED <<tasks, showModal, editingTask, aiSuggestion, loading,
                   user, accessToken, refreshToken, mounted>>

\* handleDeleteTaskOk removing the record locally instead of refreshing
handleDeleteTaskOkLocal(op) ==
    /\ op \in PendingAt("handleDeleteTask", "DELETE task")
    /\ tasks' = SelectSeq(tasks, LAMBDA t : t.id # op.id)
    /\ inflight' = Settle(inflight, op)
    /\ ev' = Event("handleDeleteTaskDone", TRUE, null)
    /\ UNCHANGED <<clicks, showModal, editingTask, aiSuggestion, loading,
                   user, accessToken, refreshToken, mounted>>

\* the DELETE succeeded                                        App.js:104
handleDeleteTaskOk(op) ==
    /\ op \in PendingAt("handleDeleteTask", "DELETE task")
    /\ inflight' = Issue(Settle(inflight, op), ListOp)
    /\ ev' = Event("handleDeleteTaskDone", TRUE, null)
    /\ UNCHANGED <<clicks, tasks, showModal, editingTask, aiSuggestion,
                   loading, user, accessToken, refreshToken, mounted>>

handleDeleteTaskFail(op) ==
    /\ op \in PendingAt("handleDeleteTask", "DELETE task")
    /\ inflight' = Settle(inflight, op)
    /\ ev' = Event("handleDeleteTaskDone", FALSE, null)
    /\ UNCHANGED <<clicks, tasks, showModal, editingTask, aiSuggestion,
                   loading, user, accessToken, refreshToken, mounted>>

(* ------------------------- handleAiSuggestion ------------------------- *)

\* a click on the daily-plan button, which is disabled while loading
\*                                               App.js:149-155, 111-114
handleAiSuggestion ==
    /\ UserEvent("main")
    /\ Requesting
    /\ ~PlanButtonDisabled
    /\ loading' = TRUE
    /\ inflight' = Issue(inflight,
          NoArg("handleAiSuggestion", "POST plan"))
    /\ ev' = Event("handleAiSuggestion", TRUE, null)
    /\ UNCHANGED <<tasks, showModal, editingTask, aiSuggestion, user,
                   accessToken, refreshToken, mounted>>

\* the request succeeded, then the finally block        App.js:115, 122-124
handleAiSuggestionOk(op, data) ==
    /\ op \in PendingAt("handleAiSuggestion", "POST plan")
    /\ data \in Plans
    /\ aiSuggestion' = data
    /\ loading' = FALSE
    /\ inflight' = Settle(inflight, op)
    /\ ev' = Event("handleAiSuggestionDone", TRUE, data)
    /\ UNCHANGED <<clicks, tasks, showModal, editingTask, user, accessToken,
                   refreshToken, mounted>>

\* handleAiSuggestionFail whose catch only logs
handleAiSuggestionFailNoFallback(op) ==
    /\ op \in PendingAt("handleAiSuggestion", "POST plan")
    /\ loading' = FALSE
    /\ inflight' = Settle(inflight, op)
    /\ ev' = Event("handleAiSuggestionDone", FALSE, null)
    /\ UNCHANGED <<clicks, tasks, showModal, editingTask, aiSuggestion, user,
                   accessToken, refreshToken, mounted>>

\* handleAiSuggestionFail with setLoading(false) at the end of the try
\* block instead of in finally
handleAiSuggestionFailNoFinally(op) ==
    /\ op \in PendingAt("handleAiSuggestion", "POST plan")
    /\ aiSuggestion' = FallbackSuggestion
    /\ inflight' = Settle(inflight, op)
    /\ ev' = Event("handleAiSuggestionDone", FALSE, null)
    /\ UNCHANGED <<clicks, tasks, showModal, editingTask, loading, user,
                   accessToken, refreshToken, mounted>>

\* the request failed, then the finally block               App.js:116-124
handleAiSuggestionFail(op) ==
    /\ op \in PendingAt("handleAiSuggestion", "POST plan")
    /\ aiSuggestion' = FallbackSuggestion
    /\ loading' = FALSE
    /\ inflight' = Settle(inflight, op)
    /\ ev' = Event("handleAiSuggestionDone", FALSE, null)
    /\ UNCHANGED <<clicks, tasks, showModal, editingTask, user, accessToken,
                   refreshToken, mounted>>

\* the close button's handler, () => setAiSuggestion(null): the value it
\* stores, whatever the suggestion was                       App.js:168
dismiss(suggestion) == null

\* DismissSuggestion that closes the modal as well
DismissSuggestionAndModal ==
    /\ UserEvent("main")
    /\ aiSuggestion # null
    /\ aiSuggestion' = dismiss(aiSuggestion)
    /\ showModal' = FALSE
    /\ ev' = Event("dismissSuggestion", TRUE, null)
    /\ UNCHANGED <<tasks, editingTask, loading, user, accessToken,
                   refreshToken, mounted, inflight>>

\* a click on the close button, rendered while a suggestion is
\*                                                          App.js:158-172
DismissSuggestion ==
    /\ UserEvent("main")
    /\ aiSuggestion # null
    /\ aiSuggestion' = dismiss(aiSuggestion)
    /\ ev' = Event("dismissSuggestion", TRUE, null)
    /\ UNCHANGED <<tasks, showModal, editingTask, loading, user, accessToken,
                   refreshToken, mounted, inflight>>

(* -------------------------------- Next -------------------------------- *)

Next ==
    \/ Mount
    \/ \E op \in Pending, data \in ListBodies : fetchTasksOk(op, data)
    \/ \E op \in Pending : fetchTasksFail(op)
    \/ \E op \in Pending, data \in Profiles : fetchUserProfileOk(op, data)
    \/ \E op \in Pending : fetchUserProfileFail(op)
    \/ handleLogin
    \/ \E op \in Pending, data \in Tokens : handleLoginTokenOk(op, data)
    \/ \E op \in Pending : handleLoginTokenFail(op)
    \/ handleLogout
    \/ \E i \in 1..Len(tasks), s \in Statuses : handleStatusChange(i, s)
    \/ \E op \in Pending : handleStatusChangeOk(op)
    \/ \E op \in Pending : handleStatusChangeFail(op)
    \/ NewTask
    \/ \E i \in 1..Len(tasks) : EditTask(i)
    \/ CloseModal
    \/ handleSaveTask
    \/ \E op \in Pending : handleSaveTaskOk(op)
    \/ \E op \in Pending : handleSaveTaskFail(op)
    \/ \E i \in 1..Len(tasks), c \in BOOLEAN : handleDeleteTask(i, c)
    \/ \E op \in Pending : handleDeleteTaskOk(op)
    \/ \E op \in Pending : handleDeleteTaskFail(op)
    \/ handleAiSuggestion
    \/ \E op \in Pending, data \in Plans : handleAiSuggestionOk(op, data)
    \/ \E op \in Pending : handleAiSuggestionFail(op)
    \/ DismissSuggestion

Spec == Init /\ [][Next]_vars

\* the daily-plan request is answered or fails
AiSettles ==
    \E op \in Pending :
        \/ \E data \in Plans : handleAiSuggestionOk(op, data)
        \/ handleAiSuggestionFail(op)
FairSpec == Spec /\ WF_vars(AiSettles)

(* ------------------------------ claims -------------------------------- *)

\* the sequence a list response carries, whatever its shape
ItemsOf(body) ==
    IF body.shape = "paginated" THEN body.results ELSE body.items
\* the step settles one request and issues none
SettlesOnly ==
    /\ inflight' \sqsubseteq inflight
    /\ BagCardinality(inflight') = BagCardinality(inflight) - 1
\* the step replaces one settled request by the list request
FollowedByList ==
    /\ CopiesIn(ListOp, inflight') = CopiesIn(ListOp, inflight) + 1
    /\ BagCardinality(inflight') = BagCardinality(inflight)

\* C1: a successful create, update or confirmed delete changes no record
\* locally and issues the follow-up list request; the collection changes
\* when a list response arrives, and is then exactly the sequence that
\* response carries.
C1_FullRefresh ==
    [][/\ (ev'.op \in {"handleSaveTaskDone", "handleDeleteTaskDone"} /\ ev'.ok)
            => tasks' = tasks /\ FollowedByList
       /\ (ev'.op \in {"fetchTasks", "handleLoginTasks"} /\ ev'.ok)
            => tasks' = ItemsOf(ev'.data)]_vars
\* a delete succeeded: both records are still shown and the list request
\* is in flight
C1_Witness ==
    /\ ev.op = "handleDeleteTaskDone" /\ ev.ok
    /\ Len(tasks) = 2
    /\ BagIn(ListOp, inflight)

\* C2: after a successful status change the collection is the collection
\* of the call with the status of the record of that id replaced: same
\* length, same order, every other record and every other field as it was.
C2_StatusPatch ==
    (ev.op = "handleStatusChangeDone" /\ ev.ok) =>
        LET before == ev.data.snap
        IN  /\ Len(tasks) = Len(before)
            /\ \E i \in 1..Len(before) : before[i].id = ev.data.id
            /\ \A i \in 1..Len(before) :
                  /\ tasks[i].id = before[i].id
                  /\ tasks[i].title = before[i].title
                  /\ tasks[i].status =
                        IF before[i].id = ev.data.id THEN ev.data.status
                        ELSE before[i].status
                  /\ DOMAIN tasks[i] = DOMAIN before[i]
\* the spec's scenario: changeStatus(5, DONE) on [{5,TO_DO},{7,DONE}]
C2_Witness ==
    /\ ev.op = "handleStatusChangeDone" /\ ev.ok
    /\ ev.data.id = 5 /\ ev.data.status = "DONE"
    /\ ev.data.snap = <<[id |-> 5, title |-> "t", status |-> "TO_DO"],
                        [id |-> 7, title |-> "t", status |-> "DONE"]>>
    /\ tasks = <<[id |-> 5, title |-> "t", status |-> "DONE"],
                 [id |-> 7, title |-> "t", status |-> "DONE"]>>

\* C3: right after logout the session is absent, the collection empty,
\* both tokens removed, and the login view is what renders.
C3_Logout ==
    ev.op = "handleLogout" =>
        /\ user = null
        /\ tasks = <<>>
        /\ accessToken = NoItem /\ refreshToken = NoItem
        /\ View = "login"
\* logout while requests are in flight and the modal is open
C3_Witness ==
    /\ ev.op = "handleLogout"
    /\ showModal
    /\ NInFlight > 0

\* C4: a failed credential exchange raises the alert, stores no token,
\* issues no request, and leaves the session as it was: absent stays
\* absent.
C4_LoginFailure ==
    [][(ev'.op = "handleLoginToken" /\ ~ev'.ok) =>
            /\ ev'.data # null
            /\ ev'.data.alert
                  = "Login failed. Please check your credentials."
            /\ accessToken' = accessToken /\ refreshToken' = refreshToken
            /\ user' = user
            /\ SettlesOnly]_vars
\* the alert was shown, nothing is stored or in flight, no session
C4_Witness ==
    /\ ev.op = "handleLoginToken" /\ ~ev.ok
    /\ ev.data.alert = "Login failed. Please check your credentials."
    /\ user = null
    /\ accessToken = NoItem /\ refreshToken = NoItem
    /\ NInFlight = 0

LoginOp(at) == NoArg("handleLogin", at)
AiOp == NoArg("handleAiSuggestion", "POST plan")

\* C5: after a successful credential exchange the profile request is
\* issued and the list request is not; the list request is issued when
\* the profile request settles; the profile is stored, and the session is
\* present when login completes.
C5_LoginSuccess ==
    [][/\ (ev'.op = "handleLoginToken" /\ ev'.ok) =>
            /\ CopiesIn(LoginOp("GET profile"), inflight')
                  = CopiesIn(LoginOp("GET profile"), inflight) + 1
            /\ CopiesIn(LoginOp("GET tasks"), inflight')
                  = CopiesIn(LoginOp("GET tasks"), inflight)
       /\ (CopiesIn(LoginOp("GET tasks"), inflight')
              > CopiesIn(LoginOp("GET tasks"), inflight))
            => ev'.op = "handleLoginProfile"
       /\ ev'.op = "handleLoginTasks" => user' # null]_vars

\* C6: right after a daily-plan request settles the suggestion is
\* present: the response's plan on success, the fallback text with 0
\* hours on failure.
C6_SuggestionPresent ==
    ev.op = "handleAiSuggestionDone" =>
        /\ aiSuggestion # null
        /\ ev.ok => aiSuggestion = ev.data /\ ev.data \in Plans
        /\ ~ev.ok =>
              /\ aiSuggestion.plan
                    = "Could not generate plan. Please try again later."
              /\ aiSuggestion.estimated_hours = 0
\* a failed request replaced a dismissed or absent suggestion by the
\* fallback
C6_Witness ==
    /\ ev.op = "handleAiSuggestionDone" /\ ~ev.ok
    /\ aiSuggestion = FallbackSuggestion
    /\ ~loading

\* C7: a daily-plan request sets loading when it starts; loading is true
\* only while the request is in flight; and, the request being answered
\* or failing, loading is cleared: at every moment loading is false or
\* becomes false later.
C7_LoadingCleared ==
    /\ [](ev.op = "handleAiSuggestion" => loading)
    /\ [](loading => BagIn(AiOp, inflight))
    /\ []<>(~loading)
\* the request failed and loading is cleared
C7_Witness ==
    /\ ev.op = "handleAiSuggestionDone" /\ ~ev.ok
    /\ ~loading
    /\ ~BagIn(AiOp, inflight)

\* C8: at most one daily-plan request is in flight, and one is in flight
\* exactly while loading is true, which is when the button is disabled.
C8_OneRequest ==
    /\ CopiesIn(AiOp, inflight) <= 1
    /\ loading <=> BagIn(AiOp, inflight)
    /\ PlanButtonDisabled <=> BagIn(AiOp, inflight)
\* the request outlived a logout and the login after it: the main view
\* is back with the button disabled
C8_Witness ==
    /\ ev.op = "handleLoginProfile" /\ ev.ok
    /\ View = "main"
    /\ PlanButtonDisabled
    /\ BagIn(AiOp, inflight)

\* C9 as claimed: when a save request completes the modal is closed and
\* the edit reference cleared, whether it succeeded or failed.
C9_ClosedWhenCompleted ==
    ev.op = "handleSaveTaskDone" => ~showModal /\ editingTask = null
\* C9 as amended: a save that succeeds closes the modal and clears the
\* edit reference; a save that fails leaves both as they were.
C9_ClosedOnSuccess ==
    [][/\ (ev'.op = "handleSaveTaskDone" /\ ev'.ok)
            => ~showModal' /\ editingTask' = null
       /\ (ev'.op = "handleSaveTaskDone" /\ ~ev'.ok)
            => showModal' = showModal /\ editingTask' = editingTask]_vars
\* a failed update: the modal is still open on the task being edited
C9_Witness ==
    /\ ev.op = "handleSaveTaskDone" /\ ~ev.ok
    /\ showModal
    /\ editingTask # null

\* C10: the call of a status change, save or delete changes no UI state,
\* and when a list, save, delete or status-change request fails the step
\* changes no UI state and issues no request.
C10_FailureLeavesState ==
    [][/\ ev'.op \in {"handleStatusChange", "handleSaveTask",
                      "handleDeleteTask"}
            => UNCHANGED <<tasks, user, showModal, editingTask,
                           aiSuggestion>>
       /\ (/\ ev'.op \in {"fetchTasks", "handleLoginTasks",
                          "handleSaveTaskDone", "handleDeleteTaskDone",
                          "handleStatusChangeDone"}
           /\ ~ev'.ok)
            => /\ UNCHANGED <<tasks, user, showModal, editingTask,
                              aiSuggestion>>
               /\ SettlesOnly]_vars
\* a list request failed while tasks are shown
C10_Witness ==
    /\ ev.op = "fetchTasks" /\ ~ev.ok
    /\ tasks # <<>>
    /\ user # null

\* the requests of one endpoint that the step adds to those in flight
IssuedAt(at) ==
    {op \in BagToSet(inflight') :
        op.at = at /\ CopiesIn(op, inflight') > CopiesIn(op, inflight)}

\* C11: when the delete confirmation is declined the step issues no
\* request (no delete, no list) and changes no state; and a step that
\* issues a delete request is a delete call whose confirmation was
\* accepted.
C11_DeclinedDelete ==
    [][/\ (ev'.op = "handleDeleteTask" /\ ~ev'.ok)
            => /\ inflight' = inflight
               /\ UNCHANGED <<tasks, user, showModal, editingTask,
                              aiSuggestion, loading, accessToken,
                              refreshToken>>
       /\ IssuedAt("DELETE task") # {}
            => ev'.op = "handleDeleteTask" /\ ev'.ok]_vars
\* a delete was declined: both records are shown, nothing is in flight
C11_Witness ==
    /\ ev.op = "handleDeleteTask" /\ ~ev.ok
    /\ Len(tasks) = 2
    /\ NInFlight = 0

\* C12 as claimed: the session goes from absent to present only in the
\* login that follows a successful credential exchange, and from present
\* to absent only in logout.
C12_SessionByLoginOnly ==
    [][/\ (user = null /\ user' # null)
            => ev'.op = "handleLoginProfile" /\ ev'.ok
       /\ (user # null /\ user' = null)
            => ev'.op = "handleLogout"]_vars
\* C12 as amended: the session goes from absent to present only when a
\* profile request succeeds, the one of a login or the one issued at
\* startup for a stored access token, and from present to absent only in
\* logout.
C12_SessionByProfileOrLogout ==
    [][/\ (user = null /\ user' # null)
            => /\ ev'.op \in {"handleLoginProfile", "fetchUserProfile"}
               /\ ev'.ok
               /\ user' \in Profiles
       /\ (user # null /\ user' = null)
            => ev'.op = "handleLogout"]_vars
\* the startup profile request created the session: no login form was
\* submitted
C12_Witness ==
    /\ ev.op = "fetchUserProfile" /\ ev.ok
    /\ user # null
    /\ clicks = 0

\* C13: when a login makes the session present again, so that the main
\* view renders, the modal is closed, no edit reference is set, no AI
\* suggestion is shown and loading is false.
C13_ResetOnLogin ==
    [][(user = null /\ user' # null /\ ev'.op = "handleLoginProfile") =>
            /\ ~showModal'
            /\ editingTask' = null
            /\ aiSuggestion' = null
            /\ ~loading']_vars

\* C14: a successful list response replaces the whole collection by the
\* sequence it carries, whatever the collection was: the results of a
\* paginated wrapper, or the bare sequence itself, the empty sequence
\* included.
C14_RefreshReplaces ==
    [][(ev'.op \in {"fetchTasks", "handleLoginTasks"} /\ ev'.ok) =>
            /\ ev'.data.shape = "paginated" => tasks' = ev'.data.results
            /\ ev'.data.shape = "array" => tasks' = ev'.data.items
            /\ ev'.data.shape \in {"paginated", "array"}]_vars
\* a paginated response with no results emptied the collection while a
\* status change issued on a non-empty collection is still in flight
C14_Witness ==
    /\ ev.op = "fetchTasks" /\ ev.ok
    /\ ev.data.shape = "paginated" /\ ev.data.results = <<>>
    /\ tasks = <<>>
    /\ user # null
    /\ PendingAt("handleStatusChange", "PATCH status") # {}

\* C15: an edit reference is set only while the modal is open; cancel,
\* an overlay click and a successful save clear the flag and the
\* reference; so the new-task control opens the modal in create mode, a
\* modal in create mode stays in create mode for as long as it is open,
\* and no update request is issued from it.
C15_CreateModeStays ==
    /\ [](editingTask # null => showModal)
    /\ [][/\ (\/ ev'.op = "closeModal"
              \/ ev'.op = "handleSaveTaskDone" /\ ev'.ok)
               => ~showModal' /\ editingTask' = null
          /\ (ev'.op = "newTask" /\ ~showModal)
               => showModal' /\ editingTask' = null
          /\ (showModal /\ editingTask = null /\ showModal')
               => editingTask' = null
          /\ (showModal /\ editingTask = null)
               => IssuedAt("PUT task") = {}]_vars

\* C16: dismissing leaves the suggestion absent and changes nothing else
\* (collection, session, loading, modal, edit reference, tokens, requests
\* in flight); dismissing again right after stores the same absent value.
C16_DismissIdempotent ==
    [][ev'.op = "dismissSuggestion" =>
            /\ aiSuggestion' = null
            /\ dismiss(aiSuggestion') = aiSuggestion'
            /\ dismiss(dismiss(aiSuggestion)) = dismiss(aiSuggestion)
            /\ UNCHANGED <<tasks, user, loading, showModal, editingTask,
                           accessToken, refreshToken, inflight>>]_vars
\* a suggestion was dismissed while the modal is open: the modal stays
C16_Witness ==
    /\ ev.op = "dismissSuggestion"
    /\ aiSuggestion = null
    /\ showModal

\* C17: from the state a logout leaves, every step other than a submit of
\* the login form keeps the session absent and the collection empty: a
\* request issued before the logout that completes after it changes
\* neither.
C17_LogoutHolds ==
    [][(ev.op = "handleLogout" /\ ev'.op # "handleLogin") =>
            user' = null /\ tasks' = <<>>]_vars

\* C18: when the status changes of two different tasks were in flight
\* together and both succeed, one right after the other, then after the
\* second both tasks are in the collection, each with its new status.
C18_NoLostStatus ==
    [][(/\ ev.op = "handleStatusChangeDone" /\ ev.ok
        /\ ev'.op = "handleStatusChangeDone" /\ ev'.ok
        /\ ev.data.id # ev'.data.id) =>
            \A done \in {ev.data, ev'.data} :
                \E i \in 1..Len(tasks') :
                    /\ tasks'[i].id = done.id
                    /\ tasks'[i].status = done.status]_vars

\* the ids of the records of a collection
IdsOf(ts) == {ts[i].id : i \in 1..Len(ts)}

\* C19: the ids in the collection are those of the last successful list
\* response applied, or none before the first and after a logout: a step
\* changes the set of ids only by applying a list response, to that
\* response's ids, or by a logout, to none; a completing status change
\* neither brings a record back nor drops one.
C19_IdsFromLastList ==
    /\ [](ev.op = "init" => tasks = <<>>)
    /\ [][\/ IdsOf(tasks') = IdsOf(tasks)
          \/ /\ ev'.op \in {"fetchTasks", "handleLoginTasks"} /\ ev'.ok
             /\ IdsOf(tasks') = IdsOf(ItemsOf(ev'.data))
          \/ /\ ev'.op = "handleLogout"
             /\ tasks' = <<>>]_vars

\* C20: one opening of the modal issues at most one save request: from
\* the state a submit leaves, with its save in flight and the modal still
\* open, no step issues another create or update request.
C20_OneSavePerOpening ==
    [][ev.op = "handleSaveTask" =>
            IssuedAt("POST task") \cup IssuedAt("PUT task") = {}]_vars

====
